---- MODULE Spec2Model ----
(***************************************************************************)
(* Model of the key-material / signing command handlers of                 *)
(* client/cli/src/commands: sign, sign-transaction, insert and the         *)
(* account report printer print_from_uri (utils.rs).                       *)
(*                                                                         *)
(* One behaviour is one command invocation.  Byte strings ([u8], String    *)
(* contents that are inspected byte-wise) are sequences of byte values     *)
(* 0..255; characters are their ASCII codes (48 = '0', 120 = 'x',          *)
(* 97 = 'a', 70 = 'F', 32 = ' ').  Secret URIs, passwords and URLs are     *)
(* never inspected byte-wise by this code: they are sequences of opaque    *)
(* tokens, the token " " standing for white space.                         *)
(*                                                                         *)
(* Everything the handlers obtain from outside (the file system, the tty,  *)
(* standard input, the crypto library's answer to a derivation, the        *)
(* bytes of a signature, the RPC outcome) is chosen by \E at the step      *)
(* that asks for it.  Every such interaction is appended to `trace`.       *)
(***************************************************************************)
EXTENDS Integers, Sequences, FiniteSets, TLC

VARIABLES
    cmd,      \* the command being run
    args,     \* its parsed arguments (the command struct's fields)
    fs,       \* the file system at the path the --suri value spells
    pc,       \* position inside the handler
    locals,   \* the handler's local variables
    stdout,   \* what println! has written, one entry per println!
    trace,    \* calls made to collaborators, in order
    result    \* what the handler returned: Running, Ok, Err(kind) or Panic

vars == <<cmd, args, fs, pc, locals, stdout, trace, result>>

-----------------------------------------------------------------------------
(* Bounds of the model.                                                    *)

MaxHexLen == 4        \* longest enumerated text handed to decode_hex
MaxKeyTypeLen == 5    \* longest enumerated --key-type

-----------------------------------------------------------------------------
(* Generic values.                                                         *)

None == [tag |-> "None"]
Some(x) == [tag |-> "Some", val |-> x]

Running == [tag |-> "Running"]
Ok == [tag |-> "Ok"]
OkVal(x) == [tag |-> "Ok", val |-> x]
Err(kind) == [tag |-> "Err", kind |-> kind]
Panic == [tag |-> "Panic"]

RECURSIVE SeqsOfLen(_, _)
SeqsOfLen(S, n) ==
    IF n = 0 THEN {<<>>}
    ELSE {Append(s, c) : s \in SeqsOfLen(S, n - 1), c \in S}

SeqsUpTo(S, n) == UNION {SeqsOfLen(S, k) : k \in 0..n}

CallsOf(op) == SelectSeq(trace, LAMBDA e : e.op = op)

-----------------------------------------------------------------------------
(* Hex: the `hex` crate as used by utils.rs and sign.rs.                   *)

\* hex::encode's table "0123456789abcdef"
HexChars == <<48, 49, 50, 51, 52, 53, 54, 55, 56, 57, 97, 98, 99, 100, 101, 102>>

\* value of one hex digit, -1 for a byte that is no hex digit (hex::decode
\* accepts both cases)
HexVal(c) ==
    IF c \in 48..57 THEN c - 48
    ELSE IF c \in 97..102 THEN c - 87
    ELSE IF c \in 65..70 THEN c - 55
    ELSE -1

RECURSIVE HexEncode(_)
HexEncode(bytes) ==
    IF bytes = <<>> THEN <<>>
    ELSE <<HexChars[(bytes[1] \div 16) + 1], HexChars[(bytes[1] % 16) + 1]>>
             \o HexEncode(Tail(bytes))

\* hex::decode: odd length and non-digit bytes are errors
HexDecode(m) ==
    IF Len(m) % 2 # 0 THEN Err("OddLength")
    ELSE IF \E i \in 1..Len(m) : HexVal(m[i]) = -1 THEN Err("InvalidHexCharacter")
    ELSE OkVal([i \in 1..(Len(m) \div 2) |->
                   16 * HexVal(m[2 * i - 1]) + HexVal(m[2 * i])])

\* "0x"
HexPrefix == <<48, 120>>

\* utils.rs decode_hex.  message[..2] is a slice of the first two bytes: on
\* an input shorter than two bytes the index is out of range and the
\* function panics.
DecodeHex(message) ==
    IF Len(message) < 2 THEN Panic
    ELSE LET m == IF SubSeq(message, 1, 2) = HexPrefix
                  THEN SubSeq(message, 3, Len(message))
                  ELSE message
             r == HexDecode(m)
         IN  IF r.tag = "Ok" THEN r ELSE Err("InvalidHex")

\* a read_message that takes a supplied argument literally unless the hex
\* flag is set
ReadMessage_LiteralUnlessHex(msg, should_decode, stdin) ==
    IF msg.tag = "Some"
    THEN IF should_decode THEN DecodeHex(msg.val) ELSE OkVal(msg.val)
    ELSE IF stdin.tag # "Ok" THEN stdin
    ELSE IF should_decode THEN DecodeHex(stdin.val)
    ELSE stdin

\* utils.rs read_message, given what standard input holds (Err("Io") when
\* reading it fails).  A supplied argument is always hex-decoded.
ReadMessage(msg, should_decode, stdin) ==
    IF msg.tag = "Some" THEN DecodeHex(msg.val)
    ELSE IF stdin.tag # "Ok" THEN stdin
    ELSE IF should_decode THEN DecodeHex(stdin.val)
    ELSE stdin

-----------------------------------------------------------------------------
(* Inputs and the outside world.                                           *)

Schemes == {"Ecdsa", "Sr25519", "Ed25519"}

\* texts handed to decode_hex: every text up to MaxHexLen over '0', 'x', 'F',
\* plus the two texts of the specification's scenario C ("0xdeadbeef" and
\* "0xdead be")
HexTexts ==
    SeqsUpTo({48, 120, 70}, MaxHexLen)
        \cup {<<48, 120, 100, 101, 97, 100, 98, 101, 101, 102>>,
              <<48, 120, 100, 101, 97, 100, 32, 98, 101>>}

\* values of a --suri flag, contents of the file it may name, and what a
\* user may type at the "URI: " prompt
SuriFlags == {<<"//Alice">>, <<"key.txt">>}
FileContents == {<<"//Bob">>, <<"//Bob", " ">>, <<" ", "//Bob">>, <<" ", "//Bob", " ">>}
TtyLines == {<<"//Carol">>}

Passwords == {"pw"}

\* params::SharedParams as far as these handlers read it
SharedParams ==
    [password_interactive : BOOLEAN,
     password : {None} \cup {Some(p) : p \in Passwords},
     scheme : Schemes]

\* key pairs the crypto library may derive; a pair is opaque but for public()
Pairs == {[public |-> <<17>>], [public |-> <<171, 205>>]}
Seeds == {<<1>>, <<254, 220>>}
\* bytes a signing call may return (signing may be randomized)
Signatures == {<<0>>, <<171, 205>>}

-----------------------------------------------------------------------------
(* Helpers shared by the commands (utils.rs).                              *)

RECURSIVE TrimEnd(_)
\* str::trim_end: white space removed at the end only
TrimEnd(s) ==
    IF s # <<>> /\ s[Len(s)] = " " THEN TrimEnd(SubSeq(s, 1, Len(s) - 1)) ELSE s

\* a read_uri that hands on the file's contents as they are
ReadUri_NoTrim(uri, is_file, file, tty) ==
    IF uri.tag = "Some"
    THEN IF is_file THEN file ELSE OkVal(uri.val)
    ELSE tty

\* utils.rs read_uri.  is_file: whether the flag's value names a file;
\* file: the outcome of reading it; tty: the outcome of the prompt.
ReadUri(uri, is_file, file, tty) ==
    IF uri.tag = "Some"
    THEN IF is_file
         THEN IF file.tag = "Ok" THEN OkVal(TrimEnd(file.val)) ELSE file
         ELSE OkVal(uri.val)
    ELSE tty

\* utils.rs get_password.  tty: the outcome of the "Key password: " prompt.
GetPassword(params, tty) ==
    IF params.password_interactive THEN tty
    ELSE IF params.password.tag = "Some" THEN OkVal(params.password.val)
    ELSE Err("MissingPassword")

FileOutcomes == {Err("Io")} \cup {OkVal(c) : c \in FileContents}
\* what PathBuf::is_file and read_to_string find at a path: no file, or a
\* file that cannot be read, or a file and its contents
NoFile == [is_file |-> FALSE, file |-> Err("Io")]
FileSystems == {NoFile} \cup {[is_file |-> TRUE, file |-> f] : f \in FileOutcomes}
TtyUriOutcomes == {Err("Io")} \cup {OkVal(l) : l \in TtyLines}
TtyPasswordOutcomes == {Err("Io")} \cup {OkVal(p) : p \in Passwords}
\* standard input: unreadable, or a short text, or "0xFF"
StdinOutcomes ==
    {Err("Io")} \cup {OkVal(t) : t \in SeqsUpTo({48, 120, 70}, 2) \cup {<<48, 120, 70, 70>>}}

\* the handler returns r (an Err or a Panic) to its caller
Return(r) ==
    /\ result' = r
    /\ pc' = "done"

NoLocals ==
    [message |-> None, suri |-> None, password |-> None, pair |-> None,
     public |-> None, node_url |-> None, nonce |-> None, call |-> None,
     extrinsic |-> None, lib |-> None]

-----------------------------------------------------------------------------
(* sign (sign.rs).                                                         *)

SignArgs ==
    [suri : {None} \cup {Some(u) : u \in SuriFlags},
     message : {None} \cup {Some(t) : t \in HexTexts},
     hex : BOOLEAN,
     shared_params : SharedParams]

\* sign.rs:55
SignReadMessage ==
    /\ cmd = "sign" /\ pc = "sign_read_message"
    /\ \E stdin \in StdinOutcomes :
         LET r == ReadMessage(args.message, args.hex, stdin) IN
         /\ trace' = IF args.message.tag = "None"
                     THEN Append(trace, [op |-> "read_stdin", ret |-> stdin]) ELSE trace
         /\ IF r.tag = "Ok"
            THEN /\ locals' = [locals EXCEPT !.message = Some(r.val)]
                 /\ pc' = "sign_read_uri"
                 /\ UNCHANGED result
            ELSE /\ Return(r)
                 /\ UNCHANGED locals
    /\ UNCHANGED <<cmd, args, fs, stdout>>

\* sign.rs:56
SignReadUri ==
    /\ cmd = "sign" /\ pc = "sign_read_uri"
    /\ \E tty \in TtyUriOutcomes :
         LET r == ReadUri(args.suri, fs.is_file, fs.file, tty) IN
         IF r.tag = "Ok"
         THEN /\ locals' = [locals EXCEPT !.suri = Some(r.val)]
              /\ pc' = "sign_get_password"
              /\ UNCHANGED result
         ELSE /\ Return(r)
              /\ UNCHANGED locals
    /\ UNCHANGED <<cmd, args, fs, stdout, trace>>

\* sign.rs:57
SignGetPassword ==
    /\ cmd = "sign" /\ pc = "sign_get_password"
    /\ \E tty \in TtyPasswordOutcomes :
         LET r == GetPassword(args.shared_params, tty) IN
         IF r.tag = "Ok"
         THEN /\ locals' = [locals EXCEPT !.password = Some(r.val)]
              /\ pc' = "sign_pair_from_suri"
              /\ UNCHANGED result
         ELSE /\ Return(r)
              /\ UNCHANGED locals
    /\ UNCHANGED <<cmd, args, fs, stdout, trace>>

\* sign.rs:58.  RA::pair_from_suri returns a pair, not a Result: when no
\* pair can be derived it can only panic.
SignPairFromSuri ==
    /\ cmd = "sign" /\ pc = "sign_pair_from_suri"
    /\ \E r \in {Panic} \cup {OkVal(p) : p \in Pairs} :
         /\ trace' = Append(trace, [op |-> "pair_from_suri", suri |-> locals.suri.val,
                                    password |-> locals.password.val, ret |-> r])
         /\ IF r.tag = "Ok"
            THEN /\ locals' = [locals EXCEPT !.pair = Some(r.val)]
                 /\ pc' = "sign_sign"
                 /\ UNCHANGED result
            ELSE /\ Return(r)
                 /\ UNCHANGED locals
    /\ UNCHANGED <<cmd, args, fs, stdout>>

\* a signature line with a "0x" in front
SignatureLine_Prefixed(sig) == [kind |-> "hexline", bytes |-> HexPrefix \o HexEncode(sig)]

\* sign.rs:59: format!("{}", hex::encode(signature))
SignatureLine(sig) == [kind |-> "hexline", bytes |-> HexEncode(sig)]

\* sign.rs:59-61
SignSign ==
    /\ cmd = "sign" /\ pc = "sign_sign"
    /\ \E sig \in Signatures :
         /\ trace' = Append(trace, [op |-> "sign", pair |-> locals.pair.val,
                                    msg |-> locals.message.val, sig |-> sig])
         /\ stdout' = Append(stdout, SignatureLine(sig))
    /\ result' = Ok
    /\ pc' = "done"
    /\ UNCHANGED <<cmd, args, fs, locals>>

-----------------------------------------------------------------------------
(* Key derivation and the runtime's codec, as the handlers use them.       *)

\* what P::from_string(suri, Some(password)) may answer
FromStringOutcomes == {Err("InvalidFormat")} \cup {OkVal(p) : p \in Pairs}

\* utils.rs pair_from_suri, given the library's answer `lib` to
\* P::from_string(suri, Some(password)): .expect("Invalid phrase") panics on Err
PairFromSuri(lib) == IF lib.tag = "Ok" THEN lib ELSE Panic

\* stand-in for blake2_256 (sp_runtime hashes an ECDSA public key into the
\* account identifier): some function of the bytes that is not the identity
Blake2(bytes) == [i \in DOMAIN bytes |-> (bytes[i] + 1) % 256]

\* public.into().into_account(): MultiSigner -> AccountId32
IntoAccount(scheme, public) == IF scheme = "Ecdsa" THEN Blake2(public) ELSE public

RECURSIVE DecValue(_)
DecValue(s) == IF s = <<>> THEN 0 ELSE 10 * DecValue(SubSeq(s, 1, Len(s) - 1)) + (s[Len(s)] - 48)

\* IndexFor::<RA>::from_str: a non-empty string of decimal digits
ParseNonce(s) ==
    IF s # <<>> /\ \A i \in 1..Len(s) : s[i] \in 48..57
    THEN OkVal(DecValue(s)) ELSE Err("NonceParse")

\* RA::build_extra(nonce): the Transaction Extra is determined by the nonce
BuildExtra(nonce) == [nonce |-> nonce]

\* stand-ins for parity_scale_codec::Encode on the runtime's types: the
\* concatenation of the parts' encodings
EncodeCall(call) == call.encoded
EncodeExtra(extra) == <<extra.nonce % 256>>
EncodePayload(p) == EncodeCall(p.call) \o EncodeExtra(p.extra) \o p.additional
EncodeExtrinsic(x) == x.signed \o x.signature \o EncodeExtra(x.extra) \o EncodeCall(x.function)

\* SignedPayload::new(call, extra), given the outcome of
\* extra.additional_signed()
SignedPayloadNew(call, extra, additional) ==
    IF additional.tag = "Ok"
    THEN OkVal([call |-> call, extra |-> extra, additional |-> additional.val])
    ELSE additional

AdditionalOutcomes == {Err("TransactionValidityError"), OkVal(<<>>), OkVal(<<9>>)}

\* a create_extrinsic_for that signs the call alone, not the payload
CreateExtrinsicFor_SignsCallOnly(call, nonce, signer, scheme, additional, sig) ==
    LET extra == BuildExtra(nonce)
        payload == SignedPayloadNew(call, extra, additional)
        asked == <<[op |-> "additional_signed", extra |-> extra, ret |-> additional]>>
    IN  IF payload.tag # "Ok"
        THEN [ret |-> Err("TransactionValidity"), calls |-> asked]
        ELSE [ret |-> OkVal([function |-> payload.val.call,
                             signed |-> IntoAccount(scheme, signer.public),
                             signature |-> sig,
                             extra |-> payload.val.extra]),
              calls |-> Append(asked, [op |-> "sign", pair |-> signer,
                                       msg |-> EncodeCall(call), sig |-> sig])]

\* a create_extrinsic_for that signs before it looks at the payload's outcome
CreateExtrinsicFor_SignsFirst(call, nonce, signer, scheme, additional, sig) ==
    LET extra == BuildExtra(nonce)
        payload == SignedPayloadNew(call, extra, additional)
        asked == <<[op |-> "additional_signed", extra |-> extra, ret |-> additional],
                   [op |-> "sign", pair |-> signer, msg |-> EncodeCall(call) \o EncodeExtra(extra),
                    sig |-> sig]>>
    IN  IF payload.tag # "Ok"
        THEN [ret |-> Err("TransactionValidity"), calls |-> asked]
        ELSE [ret |-> OkVal([function |-> payload.val.call,
                             signed |-> IntoAccount(scheme, signer.public),
                             signature |-> sig,
                             extra |-> payload.val.extra]),
              calls |-> asked]

\* utils.rs create_extrinsic_for, given the outcome of additional_signed()
\* and the bytes signer.sign returns.  ret: the function's result; calls:
\* the additional_signed() and signer.sign invocations it made.
CreateExtrinsicFor(call, nonce, signer, scheme, additional, sig) ==
    LET extra == BuildExtra(nonce)
        payload == SignedPayloadNew(call, extra, additional)
        asked == <<[op |-> "additional_signed", extra |-> extra, ret |-> additional]>>
    IN  IF payload.tag # "Ok"
        THEN [ret |-> Err("TransactionValidity"), calls |-> asked]
        ELSE [ret |-> OkVal([function |-> payload.val.call,
                             signed |-> IntoAccount(scheme, signer.public),
                             signature |-> sig,
                             extra |-> payload.val.extra]),
              calls |-> Append(asked, [op |-> "sign", pair |-> signer,
                                       msg |-> EncodePayload(payload.val), sig |-> sig])]

-----------------------------------------------------------------------------
(* sign-transaction (sign_transaction.rs).                                 *)

NonceTexts == {<<55>>, <<49, 50>>, <<120>>, <<>>}

SignTransactionArgs ==
    [suri : SuriFlags,
     nonce : NonceTexts,
     call : HexTexts,
     shared_params : SharedParams]

\* sign_transaction.rs:48: the --call flag is parsed with decode_hex
SignTxParseCall ==
    /\ cmd = "sign_transaction" /\ pc = "sign_tx_parse_call"
    /\ LET r == DecodeHex(args.call) IN
       IF r.tag = "Ok"
       THEN /\ locals' = [locals EXCEPT !.message = Some(r.val)]
            /\ pc' = "sign_tx_nonce"
            /\ UNCHANGED result
       ELSE /\ Return(r)
            /\ UNCHANGED locals
    /\ UNCHANGED <<cmd, args, fs, stdout, trace>>

\* sign_transaction.rs:65
SignTxParseNonce ==
    /\ cmd = "sign_transaction" /\ pc = "sign_tx_nonce"
    /\ LET r == ParseNonce(args.nonce) IN
       IF r.tag = "Ok"
       THEN /\ locals' = [locals EXCEPT !.nonce = Some(r.val)]
            /\ pc' = "sign_tx_decode_call"
            /\ UNCHANGED result
       ELSE /\ Return(r)
            /\ UNCHANGED locals
    /\ UNCHANGED <<cmd, args, fs, stdout, trace>>

\* sign_transaction.rs:66: CallFor::<RA>::decode accepts the bytes or not
SignTxDecodeCall ==
    /\ cmd = "sign_transaction" /\ pc = "sign_tx_decode_call"
    /\ \E r \in {Err("CallDecode"), OkVal([encoded |-> locals.message.val])} :
         /\ trace' = Append(trace, [op |-> "decode_call", bytes |-> locals.message.val,
                                    ret |-> r])
         /\ IF r.tag = "Ok"
            THEN /\ locals' = [locals EXCEPT !.call = Some(r.val)]
                 /\ pc' = "sign_tx_get_password"
                 /\ UNCHANGED result
            ELSE /\ Return(r)
                 /\ UNCHANGED locals
    /\ UNCHANGED <<cmd, args, fs, stdout>>

\* sign_transaction.rs:72: the argument of print_ext, evaluated before the call
SignTxGetPassword ==
    /\ cmd = "sign_transaction" /\ pc = "sign_tx_get_password"
    /\ \E tty \in TtyPasswordOutcomes :
         LET r == GetPassword(args.shared_params, tty) IN
         IF r.tag = "Ok"
         THEN /\ locals' = [locals EXCEPT !.password = Some(r.val)]
              /\ pc' = "sign_tx_pair_from_suri"
              /\ UNCHANGED result
         ELSE /\ Return(r)
              /\ UNCHANGED locals
    /\ UNCHANGED <<cmd, args, fs, stdout, trace>>

\* sign_transaction.rs:102 (print_ext): the --suri value is used as given
SignTxPairFromSuri ==
    /\ cmd = "sign_transaction" /\ pc = "sign_tx_pair_from_suri"
    /\ \E lib \in FromStringOutcomes :
         LET r == PairFromSuri(lib) IN
         /\ trace' = Append(trace, [op |-> "from_string", suri |-> args.suri,
                                    password |-> locals.password.val, ret |-> lib])
         /\ IF r.tag = "Ok"
            THEN /\ locals' = [locals EXCEPT !.pair = Some(r.val)]
                 /\ pc' = "sign_tx_create_extrinsic"
                 /\ UNCHANGED result
            ELSE /\ Return(r)
                 /\ UNCHANGED locals
    /\ UNCHANGED <<cmd, args, fs, stdout>>

\* sign_transaction.rs:104: println!("0x{}", hex::encode(Encode::encode(&extrinsic)))
ExtrinsicLine(extrinsic) ==
    [kind |-> "hexline", bytes |-> HexPrefix \o HexEncode(EncodeExtrinsic(extrinsic))]

\* sign_transaction.rs:103-105 (print_ext)
SignTxCreateExtrinsic ==
    /\ cmd = "sign_transaction" /\ pc = "sign_tx_create_extrinsic"
    /\ \E additional \in AdditionalOutcomes, sig \in Signatures :
         LET r == CreateExtrinsicFor(locals.call.val, locals.nonce.val, locals.pair.val,
                                     args.shared_params.scheme, additional, sig) IN
         /\ trace' = trace \o r.calls
         /\ IF r.ret.tag = "Ok"
            THEN /\ locals' = [locals EXCEPT !.extrinsic = Some(r.ret.val)]
                 /\ stdout' = Append(stdout, ExtrinsicLine(r.ret.val))
                 /\ result' = Ok
            ELSE /\ result' = r.ret
                 /\ UNCHANGED <<locals, stdout>>
    /\ pc' = "done"
    /\ UNCHANGED <<cmd, args, fs>>

-----------------------------------------------------------------------------
(* insert (insert.rs).                                                     *)

\* --key-type values: "", "a", "aa", ... and "gran"
KeyTypes == SeqsUpTo({97}, MaxKeyTypeLen) \cup {<<103, 114, 97, 110>>}
NodeUrls == {"http://node:9944"}

InsertArgs ==
    [suri : {None} \cup {Some(u) : u \in SuriFlags},
     key_type : KeyTypes,
     node_url : {None} \cup {Some(u) : u \in NodeUrls},
     shared_params : SharedParams]

\* insert.rs:71: self.node_url.unwrap_or("http://localhost:9933".into())
NodeUrl(node_url) == IF node_url.tag = "Some" THEN node_url.val ELSE "http://localhost:9933"

\* a KeyTypeIdTryFrom that lets every length through
KeyTypeIdTryFrom_AnyLength(key_type) == OkVal(key_type)

\* KeyTypeId::try_from(&str) as insert.rs:75 uses it: Err unless the string
\* is four bytes long
KeyTypeIdTryFrom(key_type) ==
    IF Len(key_type) # 4 THEN Err("InvalidKeyType") ELSE OkVal(key_type)

\* what the round trip of insert_key may come to
RpcOutcomes == {"connect_failed", "request_failed", "ok"}

\* an insert_key that issues the request a second time when it failed
InsertKey_Retry(url, key_type, suri, public, outcome) ==
    LET request == [op |-> "insert_key", url |-> url, key_type |-> key_type,
                    suri |-> suri, public |-> public, ok |-> outcome = "ok"]
    IN  [calls |-> <<[op |-> "connect", url |-> url, ok |-> outcome # "connect_failed"]>>
                     \o (IF outcome = "connect_failed" THEN <<>>
                         ELSE IF outcome = "ok" THEN <<request>>
                         ELSE <<request, request>>),
         printed |-> IF outcome = "ok" THEN <<>>
                     ELSE <<[kind |-> "message", text |-> "Error inserting key",
                             error |-> outcome]>>]

\* insert.rs insert_key: rt::run(connect(url).and_then(insert_key).map_err(println)).
\* calls: the network activity; printed: what it writes to standard output.
InsertKey(url, key_type, suri, public, outcome) ==
    [calls |-> <<[op |-> "connect", url |-> url, ok |-> outcome # "connect_failed"]>>
                 \o (IF outcome = "connect_failed" THEN <<>>
                     ELSE <<[op |-> "insert_key", url |-> url, key_type |-> key_type,
                             suri |-> suri, public |-> public, ok |-> outcome = "ok"]>>),
     printed |-> IF outcome = "ok" THEN <<>>
                 ELSE <<[kind |-> "message", text |-> "Error inserting key",
                         error |-> outcome]>>]

\* a first step that looks at the key type before it reads the URI
InsertReadUri_KeyTypeFirst ==
    /\ cmd = "insert" /\ pc = "insert_read_uri"
    /\ \E tty \in TtyUriOutcomes :
         LET k == KeyTypeIdTryFrom(args.key_type)
             r == ReadUri(args.suri, fs.is_file, fs.file, tty) IN
         IF k.tag # "Ok"
         THEN /\ Return(k)
              /\ UNCHANGED locals
         ELSE IF r.tag = "Ok"
         THEN /\ locals' = [locals EXCEPT !.suri = Some(r.val)]
              /\ pc' = "insert_get_password"
              /\ UNCHANGED result
         ELSE /\ Return(r)
              /\ UNCHANGED locals
    /\ UNCHANGED <<cmd, args, fs, stdout, trace>>

\* insert.rs:63
InsertReadUri ==
    /\ cmd = "insert" /\ pc = "insert_read_uri"
    /\ \E tty \in TtyUriOutcomes :
         LET r == ReadUri(args.suri, fs.is_file, fs.file, tty) IN
         IF r.tag = "Ok"
         THEN /\ locals' = [locals EXCEPT !.suri = Some(r.val)]
              /\ pc' = "insert_get_password"
              /\ UNCHANGED result
         ELSE /\ Return(r)
              /\ UNCHANGED locals
    /\ UNCHANGED <<cmd, args, fs, stdout, trace>>

\* insert.rs:64
InsertGetPassword ==
    /\ cmd = "insert" /\ pc = "insert_get_password"
    /\ \E tty \in TtyPasswordOutcomes :
         LET r == GetPassword(args.shared_params, tty) IN
         IF r.tag = "Ok"
         THEN /\ locals' = [locals EXCEPT !.password = Some(r.val)]
              /\ pc' = "insert_to_vec"
              /\ UNCHANGED result
         ELSE /\ Return(r)
              /\ UNCHANGED locals
    /\ UNCHANGED <<cmd, args, fs, stdout, trace>>

\* insert.rs:66-69 and to_vec (106-109): the public key of the derived pair
InsertToVec ==
    /\ cmd = "insert" /\ pc = "insert_to_vec"
    /\ \E lib \in FromStringOutcomes :
         LET r == PairFromSuri(lib) IN
         /\ trace' = Append(trace, [op |-> "from_string", suri |-> locals.suri.val,
                                    password |-> locals.password.val, ret |-> lib])
         /\ IF r.tag = "Ok"
            THEN /\ locals' = [locals EXCEPT !.public = Some(r.val.public)]
                 /\ pc' = "insert_key_type"
                 /\ UNCHANGED result
            ELSE /\ Return(r)
                 /\ UNCHANGED locals
    /\ UNCHANGED <<cmd, args, fs, stdout>>

\* insert.rs:71-78
InsertCheckKeyType ==
    /\ cmd = "insert" /\ pc = "insert_key_type"
    /\ LET r == KeyTypeIdTryFrom(args.key_type) IN
       IF r.tag = "Ok"
       THEN /\ locals' = [locals EXCEPT !.node_url = Some(NodeUrl(args.node_url))]
            /\ pc' = "insert_insert_key"
            /\ UNCHANGED result
       ELSE /\ Return(r)
            /\ UNCHANGED locals
    /\ UNCHANGED <<cmd, args, fs, stdout, trace>>

\* insert.rs:81-88: the result of insert_key is (), then Ok(())
InsertInsertKey ==
    /\ cmd = "insert" /\ pc = "insert_insert_key"
    /\ \E outcome \in RpcOutcomes :
         LET r == InsertKey(locals.node_url.val, args.key_type, locals.suri.val,
                            locals.public.val, outcome) IN
         /\ trace' = trace \o r.calls
         /\ stdout' = stdout \o r.printed
    /\ result' = Ok
    /\ pc' = "done"
    /\ UNCHANGED <<cmd, args, fs, locals>>

-----------------------------------------------------------------------------
(* print_from_uri (utils.rs).                                              *)

Networks == {"SubstrateAccount", "PolkadotAccount"}
\* the address format to_ss58check() encodes under
DefaultVersion == "SubstrateAccount"

\* the SS58 address of `bytes` under network `version`
ToSs58CheckWithVersion(bytes, version) == [version |-> version, payload |-> bytes]
ToSs58Check(bytes) == ToSs58CheckWithVersion(bytes, DefaultVersion)

\* utils.rs format_seed, format_public_key, format_account_id
FormatSeed(seed) == HexPrefix \o HexEncode(seed)
FormatPublicKey(public_key) == HexPrefix \o HexEncode(public_key)
FormatAccountId(scheme, public_key) == HexPrefix \o HexEncode(IntoAccount(scheme, public_key))

\* "n/a"
NotApplicable == <<110, 47, 97>>

\* what the crypto library may answer to the three parses of one uri
LibAnswers ==
    [from_phrase : {Err("InvalidPhrase")} \cup {OkVal([pair |-> p, seed |-> s]) : p \in Pairs, s \in Seeds},
     from_string_with_seed :
         {Err("InvalidFormat")}
             \cup {OkVal([pair |-> p, seed |-> s]) :
                      p \in Pairs, s \in {None} \cup {Some(x) : x \in Seeds}},
     from_string_with_version :
         {Err("InvalidFormat")} \cup {OkVal(p.public) : p \in Pairs}]

PrintFromUriArgs ==
    [uri : SuriFlags,
     password : {None} \cup {Some(p) : p \in Passwords},
     network_override : Networks,
     output : {"Json", "Text"},
     scheme : Schemes]

\* one println! of a report: a JSON object, or a text block (its first line
\* names what the input is, then one row per value)
Json(obj) == [kind |-> "json", obj |-> obj]
Text(title, uri, rows) == [kind |-> "text", title |-> title, uri |-> uri, rows |-> rows]
Row(label, value) == [label |-> label, value |-> value]

\* utils.rs:100-127
PhraseReport(uri, pair, seed, output, scheme) ==
    IF output = "Json"
    THEN Json([secretPhrase |-> uri,
               secretSeed |-> FormatSeed(seed),
               publicKey |-> FormatPublicKey(pair.public),
               accountId |-> FormatAccountId(scheme, pair.public),
               ss58Address |-> ToSs58Check(IntoAccount(scheme, pair.public))])
    ELSE Text("Secret phrase", uri,
              <<Row("Secret seed", FormatSeed(seed)),
                Row("Public key (hex)", FormatPublicKey(pair.public)),
                Row("Account ID", FormatAccountId(scheme, pair.public)),
                Row("SS58 Address", ToSs58Check(IntoAccount(scheme, pair.public)))>>)

\* a seed-string report that formats an empty seed when there is none
SeedReport_EmptySeed(uri, pair, seed, output, scheme) ==
    LET secretSeed == IF seed.tag = "Some" THEN FormatSeed(seed.val) ELSE FormatSeed(<<>>) IN
    IF output = "Json"
    THEN Json([secretKeyUri |-> uri,
               secretSeed |-> secretSeed,
               publicKey |-> FormatPublicKey(pair.public),
               accountId |-> FormatAccountId(scheme, pair.public),
               ss58Address |-> ToSs58Check(IntoAccount(scheme, pair.public))])
    ELSE Text("Secret Key URI", uri,
              <<Row("Secret seed", secretSeed),
                Row("Public key (hex)", FormatPublicKey(pair.public)),
                Row("Account ID", FormatAccountId(scheme, pair.public)),
                Row("SS58 Address", ToSs58Check(IntoAccount(scheme, pair.public)))>>)

\* utils.rs:128-155
SeedReport(uri, pair, seed, output, scheme) ==
    LET secretSeed == IF seed.tag = "Some" THEN FormatSeed(seed.val) ELSE NotApplicable IN
    IF output = "Json"
    THEN Json([secretKeyUri |-> uri,
               secretSeed |-> secretSeed,
               publicKey |-> FormatPublicKey(pair.public),
               accountId |-> FormatAccountId(scheme, pair.public),
               ss58Address |-> ToSs58Check(IntoAccount(scheme, pair.public))])
    ELSE Text("Secret Key URI", uri,
              <<Row("Secret seed", secretSeed),
                Row("Public key (hex)", FormatPublicKey(pair.public)),
                Row("Account ID", FormatAccountId(scheme, pair.public)),
                Row("SS58 Address", ToSs58Check(IntoAccount(scheme, pair.public)))>>)

\* utils.rs:156-183
PublicReport(uri, public_key, network_override, output, scheme) ==
    LET v == network_override IN
    IF output = "Json"
    THEN Json([publicKeyUri |-> uri,
               networkId |-> v,
               publicKey |-> FormatPublicKey(public_key),
               accountId |-> FormatAccountId(scheme, public_key),
               ss58Address |-> ToSs58CheckWithVersion(public_key, v)])
    ELSE Text("Public Key URI", uri,
              <<Row("Network ID/version", v),
                Row("Public key (hex)", FormatPublicKey(public_key)),
                Row("Account ID", FormatAccountId(scheme, public_key)),
                Row("SS58 Address", ToSs58CheckWithVersion(public_key, v))>>)

\* utils.rs:185
InvalidLine == [kind |-> "message", text |-> "Invalid phrase/URI given"]

\* a print_from_uri that tries the seed/URI string before the phrase
PrintFromUri_SeedFirst(uri, lib, network_override, output, scheme) ==
    LET c1 == <<[op |-> "from_string_with_seed", uri |-> uri]>>
        c2 == c1 \o <<[op |-> "from_phrase", uri |-> uri]>>
        c3 == c2 \o <<[op |-> "from_string_with_version", uri |-> uri]>>
    IN  IF lib.from_string_with_seed.tag = "Ok"
        THEN [printed |-> <<SeedReport(uri, lib.from_string_with_seed.val.pair,
                                       lib.from_string_with_seed.val.seed, output, scheme)>>,
              calls |-> c1]
        ELSE IF lib.from_phrase.tag = "Ok"
        THEN [printed |-> <<PhraseReport(uri, lib.from_phrase.val.pair,
                                         lib.from_phrase.val.seed, output, scheme)>>,
              calls |-> c2]
        ELSE IF lib.from_string_with_version.tag = "Ok"
        THEN [printed |-> <<PublicReport(uri, lib.from_string_with_version.val,
                                         network_override, output, scheme)>>,
              calls |-> c3]
        ELSE [printed |-> <<InvalidLine>>, calls |-> c3]

\* utils.rs print_from_uri, given the library's answers `lib` for this uri
\* and password.  printed: what it writes; calls: the parses it asked for.
PrintFromUri(uri, lib, network_override, output, scheme) ==
    LET c1 == <<[op |-> "from_phrase", uri |-> uri]>>
        c2 == c1 \o <<[op |-> "from_string_with_seed", uri |-> uri]>>
        c3 == c2 \o <<[op |-> "from_string_with_version", uri |-> uri]>>
    IN  IF lib.from_phrase.tag = "Ok"
        THEN [printed |-> <<PhraseReport(uri, lib.from_phrase.val.pair,
                                         lib.from_phrase.val.seed, output, scheme)>>,
              calls |-> c1]
        ELSE IF lib.from_string_with_seed.tag = "Ok"
        THEN [printed |-> <<SeedReport(uri, lib.from_string_with_seed.val.pair,
                                       lib.from_string_with_seed.val.seed, output, scheme)>>,
              calls |-> c2]
        ELSE IF lib.from_string_with_version.tag = "Ok"
        THEN [printed |-> <<PublicReport(uri, lib.from_string_with_version.val,
                                         network_override, output, scheme)>>,
              calls |-> c3]
        ELSE [printed |-> <<InvalidLine>>, calls |-> c3]

\* one call of print_from_uri; `lib` is kept in locals for reference
PrintFromUriCall ==
    /\ cmd = "print_from_uri" /\ pc = "print_from_uri"
    /\ \E lib \in LibAnswers :
         LET r == PrintFromUri(args.uri, lib, args.network_override, args.output,
                               args.scheme) IN
         /\ stdout' = stdout \o r.printed
         /\ trace' = trace \o r.calls
         /\ locals' = [locals EXCEPT !.lib = Some(lib)]
    /\ result' = Ok
    /\ pc' = "done"
    /\ UNCHANGED <<cmd, args, fs>>

-----------------------------------------------------------------------------

Init ==
    /\ \/ cmd = "sign" /\ args \in SignArgs /\ pc = "sign_read_message"
       \/ cmd = "sign_transaction" /\ args \in SignTransactionArgs
             /\ pc = "sign_tx_parse_call"
       \/ cmd = "insert" /\ args \in InsertArgs /\ pc = "insert_read_uri"
       \/ cmd = "print_from_uri" /\ args \in PrintFromUriArgs /\ pc = "print_from_uri"
    /\ IF cmd = "sign_transaction" \/ (cmd \in {"sign", "insert"} /\ args.suri.tag = "Some")
       THEN fs \in FileSystems
       ELSE fs = NoFile
    /\ locals = NoLocals
    /\ stdout = <<>>
    /\ trace = <<>>
    /\ result = Running

Next ==
    \/ SignReadMessage
    \/ SignReadUri
    \/ SignGetPassword
    \/ SignPairFromSuri
    \/ SignSign
    \/ SignTxParseCall
    \/ SignTxParseNonce
    \/ SignTxDecodeCall
    \/ SignTxGetPassword
    \/ SignTxPairFromSuri
    \/ SignTxCreateExtrinsic
    \/ InsertReadUri
    \/ InsertGetPassword
    \/ InsertToVec
    \/ InsertCheckKeyType
    \/ InsertInsertKey
    \/ PrintFromUriCall

Spec == Init /\ [][Next]_vars

-----------------------------------------------------------------------------
(* Properties.                                                             *)

NetworkCalls == SelectSeq(trace, LAMBDA e : e.op \in {"connect", "insert_key"})

\* C1: in a run of insert whose key_type is not 4 bytes long, whatever the
\* other arguments, no connection is ever opened, no insert_key request is
\* ever issued and the insert_key step is never reached.
C1_NoNetworkOnBadKeyType ==
    (cmd = "insert" /\ Len(args.key_type) # 4)
        => /\ NetworkCalls = <<>>
           /\ pc # "insert_insert_key"
           /\ (pc = "done" => result # Ok)

\* a run of insert that read the URI, the password and the key, and was
\* then rejected for its key type
C1_Witness ==
    /\ cmd = "insert" /\ Len(args.key_type) # 4
    /\ pc = "done" /\ result = Err("InvalidKeyType")
    /\ locals.public.tag = "Some"

RpcFailed == \E i \in 1..Len(NetworkCalls) : ~NetworkCalls[i].ok

\* C2: when insert reached the RPC step and the connection or the request
\* failed, the command has printed exactly one diagnostic, returned Ok and
\* made one connection and at most one request; with no --node-url, all
\* network activity is directed at http://localhost:9933.
C2_RpcFailureIsSwallowed ==
    (cmd = "insert" /\ pc = "done" /\ NetworkCalls # <<>>)
        => /\ Len(CallsOf("connect")) = 1
           /\ Len(CallsOf("insert_key")) <= 1
           /\ args.node_url.tag = "None"
                 => \A i \in 1..Len(NetworkCalls) :
                        NetworkCalls[i].url = "http://localhost:9933"
           /\ args.node_url.tag = "Some"
                 => \A i \in 1..Len(NetworkCalls) :
                        NetworkCalls[i].url = args.node_url.val
           /\ RpcFailed
                 => /\ result = Ok
                    /\ Len(stdout) = 1
                    /\ stdout[1].kind = "message"
                    /\ stdout[1].text = "Error inserting key"

\* a run of insert without --node-url whose request failed
C2_Witness ==
    /\ cmd = "insert" /\ pc = "done" /\ args.node_url.tag = "None"
    /\ Len(CallsOf("insert_key")) = 1 /\ ~CallsOf("insert_key")[1].ok
    /\ result = Ok /\ Len(stdout) = 1

\* which of the three reports a printed entry is, read off its first line
\* (Text) or its first field (Json); "none" for anything else
ReportKind(e) ==
    IF e.kind = "json"
    THEN IF "secretPhrase" \in DOMAIN e.obj THEN "phrase"
         ELSE IF "secretKeyUri" \in DOMAIN e.obj THEN "seed"
         ELSE IF "publicKeyUri" \in DOMAIN e.obj THEN "public"
         ELSE "none"
    ELSE IF e.kind = "text"
    THEN IF e.title = "Secret phrase" THEN "phrase"
         ELSE IF e.title = "Secret Key URI" THEN "seed"
         ELSE IF e.title = "Public Key URI" THEN "public"
         ELSE "none"
    ELSE "none"

\* the strategy that wins under the library's answers: the first that succeeds
FirstSuccess(lib) ==
    IF lib.from_phrase.tag = "Ok" THEN "phrase"
    ELSE IF lib.from_string_with_seed.tag = "Ok" THEN "seed"
    ELSE IF lib.from_string_with_version.tag = "Ok" THEN "public"
    ELSE "none"

\* the public key the report of kind k is about
PublicKeyFor(lib, k) ==
    IF k = "phrase" THEN lib.from_phrase.val.pair.public
    ELSE IF k = "seed" THEN lib.from_string_with_seed.val.pair.public
    ELSE lib.from_string_with_version.val

\* the five values of a report under one set of names, whatever the mode:
\* a Json field name or a Text row label -> what the value is
JsonField ==
    [k \in {"secretPhrase", "secretKeyUri", "publicKeyUri", "secretSeed", "networkId",
            "publicKey", "accountId", "ss58Address"} |->
        CASE k \in {"secretPhrase", "secretKeyUri", "publicKeyUri"} -> "input"
          [] k = "secretSeed" -> "seed"
          [] k = "networkId" -> "networkId"
          [] k = "publicKey" -> "publicKey"
          [] k = "accountId" -> "accountId"
          [] k = "ss58Address" -> "address"]

TextField ==
    [l \in {"Secret seed", "Network ID/version", "Public key (hex)", "Account ID",
            "SS58 Address"} |->
        CASE l = "Secret seed" -> "seed"
          [] l = "Network ID/version" -> "networkId"
          [] l = "Public key (hex)" -> "publicKey"
          [] l = "Account ID" -> "accountId"
          [] l = "SS58 Address" -> "address"]

FieldNames(e) ==
    IF e.kind = "json" THEN {JsonField[k] : k \in DOMAIN e.obj}
    ELSE {"input"} \cup {TextField[e.rows[i].label] : i \in DOMAIN e.rows}

FieldValue(e, f) ==
    IF e.kind = "json" THEN e.obj[CHOOSE k \in DOMAIN e.obj : JsonField[k] = f]
    ELSE IF f = "input" THEN e.uri
    ELSE e.rows[CHOOSE i \in DOMAIN e.rows : TextField[e.rows[i].label] = f].value

PrintedPublicKey(e) == FieldValue(e, "publicKey")

Printed == cmd = "print_from_uri" /\ pc = "done"

\* C3: print_from_uri prints exactly one thing: the report of the first of
\* phrase, seed/URI string, public-key string that succeeds, about the key
\* that strategy gave, and no later strategy is asked; or, when all three
\* fail, the line "Invalid phrase/URI given".
C3_FirstSuccessWins ==
    Printed =>
        LET lib == locals.lib.val
            k == FirstSuccess(lib)
            asked == [i \in 1..Len(trace) |-> trace[i].op]
        IN  /\ Len(stdout) = 1
            /\ ReportKind(stdout[1]) = k
            /\ k # "none"
                  => PrintedPublicKey(stdout[1]) = FormatPublicKey(PublicKeyFor(lib, k))
            /\ k = "none" => stdout[1] = InvalidLine
            /\ k = "phrase" => asked = <<"from_phrase">>
            /\ k = "seed" => asked = <<"from_phrase", "from_string_with_seed">>
            /\ k \in {"public", "none"}
                  => asked = <<"from_phrase", "from_string_with_seed",
                               "from_string_with_version">>

\* a call whose uri parses as a phrase and also as a seed string and as a
\* public key, of three different keys: the phrase report is printed
C3_Witness ==
    /\ Printed
    /\ locals.lib.val.from_phrase.tag = "Ok"
    /\ locals.lib.val.from_string_with_seed.tag = "Ok"
    /\ locals.lib.val.from_string_with_version.tag = "Ok"
    /\ locals.lib.val.from_phrase.val.pair # locals.lib.val.from_string_with_seed.val.pair
    /\ ReportKind(stdout[1]) = "phrase"

ReportPrinted == Printed /\ ReportKind(stdout[1]) # "none"

\* the seed the winning strategy gave: Some(seed) or None
SeedFor(lib, k) ==
    IF k = "phrase" THEN Some(lib.from_phrase.val.seed)
    ELSE IF k = "seed" THEN lib.from_string_with_seed.val.seed
    ELSE None

\* the input, the public key in hex and the Account Identifier in hex are
\* in report e, and an address is
CommonFieldsOk(e, lib, k) ==
    /\ {"input", "publicKey", "accountId", "address"} \subseteq FieldNames(e)
    /\ FieldValue(e, "input") = args.uri
    /\ FieldValue(e, "publicKey") = HexPrefix \o HexEncode(PublicKeyFor(lib, k))
    /\ FieldValue(e, "accountId")
           = HexPrefix \o HexEncode(IntoAccount(args.scheme, PublicKeyFor(lib, k)))

\* report e has a seed field: the seed in hex, "n/a" when there is none
SeedFieldOk(e, lib, k) ==
    /\ "seed" \in FieldNames(e)
    /\ FieldValue(e, "seed")
           = IF SeedFor(lib, k).tag = "Some"
             THEN HexPrefix \o HexEncode(SeedFor(lib, k).val)
             ELSE NotApplicable

\* C4 as stated: every report, in both modes and for each of the three
\* outcomes, holds the input, a seed field (hex, or "n/a" when no seed is
\* available, the public-key-only outcome included), the public key, the
\* Account Identifier and the Address String.
C4_Original_FiveFieldsAlways ==
    ReportPrinted =>
        LET lib == locals.lib.val
            k == FirstSuccess(lib)
        IN  /\ CommonFieldsOk(stdout[1], lib, k)
            /\ SeedFieldOk(stdout[1], lib, k)

\* C4 as amended: every report holds the input, the public key, the Account
\* Identifier and the Address String; the phrase and seed-string reports
\* hold a seed field as well (hex, or "n/a" when the seed string gave no
\* seed); the public-key-only report holds no seed field but the network
\* identifier.
C4_ReportFields ==
    ReportPrinted =>
        LET lib == locals.lib.val
            k == FirstSuccess(lib)
            e == stdout[1]
        IN  /\ CommonFieldsOk(e, lib, k)
            /\ k \in {"phrase", "seed"}
                  => /\ SeedFieldOk(e, lib, k)
                     /\ FieldNames(e) = {"input", "seed", "publicKey", "accountId", "address"}
            /\ k = "public"
                  => /\ FieldNames(e) = {"input", "networkId", "publicKey", "accountId", "address"}
                     /\ FieldValue(e, "networkId") = args.network_override

\* a seed-string report with no seed available, printed as text
C4_Witness ==
    /\ ReportPrinted
    /\ ReportKind(stdout[1]) = "seed"
    /\ stdout[1].kind = "text"
    /\ locals.lib.val.from_string_with_seed.val.seed = None
    /\ FieldValue(stdout[1], "seed") = NotApplicable

\* C5: in every report, whichever strategy succeeded, the Address String
\* is encoded under the network override passed to print_from_uri.
C5_AddressUnderOverride ==
    ReportPrinted => FieldValue(stdout[1], "address").version = args.network_override

\* sign: what read_message came to, once its step is over
SignMessageRead == cmd = "sign" /\ pc # "sign_read_message"
SignReadOutcome == IF locals.message.tag = "Some" THEN OkVal(locals.message.val) ELSE result
SignStdin == CallsOf("read_stdin")[1].ret

\* C6 as stated, for the runs in which read_message returns bytes: a
\* supplied argument gives its literal bytes when the hex flag is not set
\* and its hex-decoding when it is; without an argument the bytes of
\* standard input are taken, hex-decoded only if the flag is set.
C6_Original_LiteralUnlessHex ==
    (SignMessageRead /\ SignReadOutcome.tag = "Ok") =>
        /\ (args.message.tag = "Some" /\ ~args.hex)
              => SignReadOutcome = OkVal(args.message.val)
        /\ (args.message.tag = "Some" /\ args.hex)
              => SignReadOutcome = DecodeHex(args.message.val)
        /\ (args.message.tag = "None" /\ SignStdin.tag = "Ok")
              => SignReadOutcome
                    = IF args.hex THEN DecodeHex(SignStdin.val) ELSE SignStdin

\* C6 as amended: a supplied argument is passed through decode_hex whether
\* or not the hex flag is set; without an argument the bytes of standard
\* input are taken, passed through decode_hex only if the flag is set.
C6_ReadMessage ==
    SignMessageRead =>
        /\ args.message.tag = "Some"
              => /\ SignReadOutcome = DecodeHex(args.message.val)
                 /\ CallsOf("read_stdin") = <<>>
        /\ (args.message.tag = "None" /\ SignStdin.tag = "Ok")
              => SignReadOutcome
                    = IF args.hex THEN DecodeHex(SignStdin.val) ELSE SignStdin
        /\ (args.message.tag = "None" /\ SignStdin.tag # "Ok")
              => SignReadOutcome = SignStdin

\* --message 0xFF without --hex: the bytes to sign are [0xFF], not the text
C6_Witness ==
    /\ SignMessageRead
    /\ ~args.hex
    /\ args.message = Some(<<48, 120, 70, 70>>)
    /\ locals.message = Some(<<255>>)

\* a text with one leading "0x" removed, if it has one
StripOnce(m) ==
    IF Len(m) >= 2 /\ SubSeq(m, 1, 2) = HexPrefix THEN SubSeq(m, 3, Len(m)) ELSE m

\* an even-length string of hex digits, and the bytes it denotes
IsHexText(t) == Len(t) % 2 = 0 /\ \A i \in 1..Len(t) : HexVal(t[i]) >= 0
BytesOfHexText(t) ==
    [i \in 1..(Len(t) \div 2) |-> 16 * HexVal(t[2 * i - 1]) + HexVal(t[2 * i])]

\* C7: decode_hex(m), for m of any length, ends in Ok(bytes) when m less one
\* leading "0x" is an even-length string of hex digits, and in InvalidHex
\* otherwise; it never ends another way.  (Read off the parse of --call.)
C7_DecodeHexNeverAborts ==
    (cmd = "sign_transaction" /\ pc # "sign_tx_parse_call")
        => LET t == StripOnce(args.call) IN
           IF IsHexText(t)
           THEN locals.message = Some(BytesOfHexText(t))
           ELSE locals.message = None /\ result = Err("InvalidHex")

\* C8: for every byte buffer b, the empty one included, decode_hex(hex(b))
\* and decode_hex("0x" ++ hex(b)) are Ok(b).  (b: the bytes a command holds
\* as its message.)
C8_HexRoundTrip ==
    locals.message.tag = "Some"
        => LET b == locals.message.val IN
           /\ DecodeHex(HexEncode(b)) = OkVal(b)
           /\ DecodeHex(HexPrefix \o HexEncode(b)) = OkVal(b)

SignSucceeded == cmd = "sign" /\ pc = "done" /\ result = Ok

\* C9 as stated: a successful sign writes exactly one line, "0x" followed by
\* the lowercase hex of the signature bytes.
C9_Original_PrefixedSignature ==
    SignSucceeded =>
        /\ Len(stdout) = 1
        /\ stdout[1].kind = "hexline"
        /\ stdout[1].bytes = HexPrefix \o HexEncode(CallsOf("sign")[1].sig)

\* C9 as amended: a successful sign writes exactly one line: the lowercase
\* hex of the signature bytes of its one signing call, two digits per byte,
\* with nothing in front.
C9_BareHexSignature ==
    SignSucceeded =>
        /\ Len(CallsOf("sign")) = 1
        /\ CallsOf("sign")[1].msg = locals.message.val
        /\ Len(stdout) = 1
        /\ stdout[1].kind = "hexline"
        /\ LET line == stdout[1].bytes
               sig == CallsOf("sign")[1].sig
           IN  /\ Len(line) = 2 * Len(sig)
               /\ \A i \in 1..Len(line) : line[i] \in (48..57) \cup (97..102)
               /\ HexDecode(line) = OkVal(sig)

\* a successful sign whose signature is [0xAB, 0xCD]: the line is "abcd"
C9_Witness ==
    /\ SignSucceeded
    /\ CallsOf("sign")[1].sig = <<171, 205>>
    /\ stdout = <<[kind |-> "hexline", bytes |-> <<97, 98, 99, 100>>]>>

SignTxSucceeded == cmd = "sign_transaction" /\ pc = "done" /\ result = Ok

\* C10: when create_extrinsic_for succeeds, the extrinsic is (account,
\* signature, call, extra): extra is build_extra(nonce), call is the call
\* given, signature is what the one signer.sign invocation returned, that
\* invocation's argument is the encoding of the payload of that call and
\* extra, and account is derived from signer.public(); sign-transaction
\* prints "0x" and the lowercase hex of the extrinsic's encoding, one line.
C10_ExtrinsicIsWhatWasSigned ==
    SignTxSucceeded =>
        LET x == locals.extrinsic.val
            signs == CallsOf("sign")
            additional == CallsOf("additional_signed")[1].ret.val
        IN  /\ x.extra = BuildExtra(locals.nonce.val)
            /\ x.function = locals.call.val
            /\ Len(signs) = 1
            /\ signs[1].pair = locals.pair.val
            /\ signs[1].msg = EncodeCall(x.function) \o EncodeExtra(x.extra) \o additional
            /\ x.signature = signs[1].sig
            /\ x.signed = IntoAccount(args.shared_params.scheme, locals.pair.val.public)
            /\ Len(stdout) = 1
            /\ stdout[1].kind = "hexline"
            /\ SubSeq(stdout[1].bytes, 1, 2) = HexPrefix
            /\ LET digits == SubSeq(stdout[1].bytes, 3, Len(stdout[1].bytes)) IN
               /\ \A i \in 1..Len(digits) : digits[i] \in (48..57) \cup (97..102)
               /\ HexDecode(digits) = OkVal(EncodeExtrinsic(x))

\* a successful sign-transaction with nonce 12 and non-empty additional
\* signed data
C10_Witness ==
    /\ SignTxSucceeded
    /\ locals.nonce = Some(12)
    /\ CallsOf("additional_signed")[1].ret = OkVal(<<9>>)
    /\ Len(CallsOf("sign")) = 1

\* the key derivations a command asked for (utils.rs pair_from_suri's
\* P::from_string, or the runtime adapter's pair_from_suri in sign)
Derivations == SelectSeq(trace, LAMBDA e : e.op \in {"from_string", "pair_from_suri"})
DerivationFailed == \E i \in 1..Len(Derivations) : Derivations[i].ret.tag # "Ok"

\* C11: in sign, sign-transaction and insert, when no key pair can be
\* derived from the secret URI the command ends by returning an error
\* result, not by a panic; nothing is printed and no RPC request is made.
C11_DerivationFailureIsAnError ==
    (cmd \in {"sign", "sign_transaction", "insert"} /\ DerivationFailed)
        => /\ pc = "done"
           /\ result.tag = "Err"
           /\ stdout = <<>>
           /\ NetworkCalls = <<>>

\* white space removed at both ends of s
RECURSIVE TrimBothEnds(_)
TrimBothEnds(s) ==
    IF s # <<>> /\ s[1] = " " THEN TrimBothEnds(Tail(s))
    ELSE IF s # <<>> /\ s[Len(s)] = " " THEN TrimBothEnds(SubSeq(s, 1, Len(s) - 1))
    ELSE s

\* t is s with its trailing white space removed, and nothing else
IsTrailingTrimOf(t, s) ==
    /\ Len(t) <= Len(s)
    /\ SubSeq(s, 1, Len(t)) = t
    /\ \A i \in (Len(t) + 1)..Len(s) : s[i] = " "
    /\ t = <<>> \/ t[Len(t)] # " "

\* the command was given a --suri value and has asked for a key derivation
SuriFlagDerived ==
    /\ cmd \in {"sign", "insert", "sign_transaction"}
    /\ cmd \in {"sign", "insert"} => args.suri.tag = "Some"
    /\ Derivations # <<>>
SuriFlag == IF cmd = "sign_transaction" THEN args.suri ELSE args.suri.val

\* C12 as stated: in sign, insert and sign-transaction, when the --suri
\* value names an existing file the string handed to key derivation is the
\* file's contents with leading and trailing white space removed; when it
\* names no file, the value itself.
C12_Original_TrimmedFileContents ==
    SuriFlagDerived =>
        IF fs.is_file
        THEN fs.file.tag = "Ok" /\ Derivations[1].suri = TrimBothEnds(fs.file.val)
        ELSE Derivations[1].suri = SuriFlag

\* C12 as amended: in sign and insert, when the --suri value names an
\* existing file the file is read (a failed read ends the command before
\* any derivation) and the string handed to key derivation is its contents
\* with trailing white space removed, leading white space kept; when it
\* names no file, the value itself.  In sign-transaction the value itself
\* is handed to key derivation whether or not it names a file.
C12_ReadUri ==
    SuriFlagDerived =>
        /\ Len(Derivations) = 1
        /\ IF cmd \in {"sign", "insert"} /\ fs.is_file
           THEN /\ fs.file.tag = "Ok"
                /\ IsTrailingTrimOf(Derivations[1].suri, fs.file.val)
           ELSE Derivations[1].suri = SuriFlag

\* sign --suri key.txt, the file holding " //Bob ": the derivation is asked
\* for " //Bob"
C12_Witness ==
    /\ cmd = "sign" /\ args.suri = Some(<<"key.txt">>)
    /\ fs = [is_file |-> TRUE, file |-> OkVal(<<" ", "//Bob", " ">>)]
    /\ Derivations # <<>>
    /\ Derivations[1].suri = <<" ", "//Bob">>

\* SignTransactionCmd::run has been entered: the arguments were parsed
SignTxRunEntered == cmd = "sign_transaction" /\ pc # "sign_tx_parse_call" /\ locals.message.tag = "Some"
\* the operations asked of the collaborators so far, in order
Ops == [i \in 1..Len(trace) |-> trace[i].op]

NonceIsNumber == args.nonce # <<>> /\ \A i \in 1..Len(args.nonce) : args.nonce[i] \in 48..57
CallRefused == CallsOf("decode_call") # <<>> /\ CallsOf("decode_call")[1].ret.tag = "Err"
CallAccepted == CallsOf("decode_call") # <<>> /\ CallsOf("decode_call")[1].ret.tag = "Ok"
NoPassword ==
    /\ ~args.shared_params.password_interactive
    /\ args.shared_params.password.tag = "None"
PayloadRejected ==
    CallsOf("additional_signed") # <<>> /\ CallsOf("additional_signed")[1].ret.tag = "Err"

\* C13: in a sign-transaction run, a nonce that does not parse, call bytes
\* that do not decode, a missing password with interactive mode off, or a
\* rejected Signed Payload each end the run with an error, with signer.sign
\* never invoked and nothing on standard output; the checks are made in
\* the order nonce, call, password, derivation, payload, and the first that
\* fails gives the error.
C13_SignTxFailures ==
    SignTxRunEntered =>
        /\ pc # "done" => result = Running
        /\ \E n \in 0..4 : Ops = SubSeq(<<"decode_call", "from_string",
                                           "additional_signed", "sign">>, 1, n)
        /\ ~NonceIsNumber =>
              /\ Ops = <<>>
              /\ pc = "sign_tx_nonce"
                   \/ (pc = "done" /\ result = Err("NonceParse"))
        /\ CallRefused =>
              /\ NonceIsNumber /\ Ops = <<"decode_call">>
              /\ pc = "done" /\ result = Err("CallDecode")
        /\ (NonceIsNumber /\ CallAccepted /\ NoPassword) =>
              /\ Ops = <<"decode_call">>
              /\ pc = "sign_tx_get_password"
                   \/ (pc = "done" /\ result = Err("MissingPassword"))
        /\ PayloadRejected =>
              /\ NonceIsNumber /\ CallAccepted /\ ~NoPassword
              /\ Ops = <<"decode_call", "from_string", "additional_signed">>
              /\ CallsOf("from_string")[1].ret.tag = "Ok"
              /\ pc = "done" /\ result = Err("TransactionValidity")
        /\ (~NonceIsNumber \/ CallRefused \/ NoPassword \/ PayloadRejected) =>
              /\ CallsOf("sign") = <<>>
              /\ stdout = <<>>
              /\ result # Ok

\* a run whose payload was rejected after nonce, call, password and
\* derivation all went through
C13_Witness ==
    /\ SignTxRunEntered /\ pc = "done"
    /\ PayloadRejected
    /\ result = Err("TransactionValidity")

\* where a finished run of insert stopped: the first of its five steps that
\* did not go through, or "none"
InsertStoppedAt ==
    IF locals.suri.tag = "None" THEN "read_uri"
    ELSE IF locals.password.tag = "None" THEN "get_password"
    ELSE IF locals.public.tag = "None" THEN "to_vec"
    ELSE IF locals.node_url.tag = "None" THEN "key_type"
    ELSE "none"

\* C14: insert reads the URI, obtains the password, derives the public key,
\* validates the key type and makes the RPC call, in that order.  A run
\* whose key type is not four bytes long returns the key-type error only
\* when URI reading, password retrieval and key derivation all went through;
\* otherwise it ends with the earlier step's failure, the key type unexamined.
C14_InsertOrder ==
    cmd = "insert" =>
        /\ \E n \in 0..3 : Ops = SubSeq(<<"from_string", "connect", "insert_key">>, 1, n)
        /\ locals.password.tag = "Some" => locals.suri.tag = "Some"
        /\ locals.public.tag = "Some" =>
              /\ locals.password.tag = "Some"
              /\ Ops # <<>> /\ trace[1].ret.tag = "Ok"
              /\ trace[1].suri = locals.suri.val /\ trace[1].password = locals.password.val
        /\ locals.node_url.tag = "Some" => locals.public.tag = "Some" /\ Len(args.key_type) = 4
        /\ NetworkCalls # <<>> => locals.node_url.tag = "Some"
        /\ pc = "insert_key_type" => locals.public.tag = "Some"
        /\ result = Err("InvalidKeyType") =>
              /\ Len(args.key_type) # 4
              /\ InsertStoppedAt = "key_type"
        /\ (pc = "done" /\ Len(args.key_type) # 4) =>
              CASE InsertStoppedAt = "read_uri" -> result = Err("Io") /\ Ops = <<>>
                [] InsertStoppedAt = "get_password" ->
                       /\ result \in {Err("Io"), Err("MissingPassword")}
                       /\ Ops = <<>>
                [] InsertStoppedAt = "to_vec" ->
                       /\ result = Panic
                       /\ Ops = <<"from_string">> /\ trace[1].ret.tag = "Err"
                [] InsertStoppedAt = "key_type" -> result = Err("InvalidKeyType")
                [] OTHER -> FALSE

\* a run with a key type of the wrong length that ended at the password,
\* the key type unexamined
C14_Witness ==
    /\ cmd = "insert" /\ Len(args.key_type) # 4
    /\ pc = "done" /\ result = Err("MissingPassword")
    /\ InsertStoppedAt = "get_password"

====
